---- MODULE Spec2Model ----
(***************************************************************************)
(* A model of DependencyGraph.py: construction of a DependencyGraph        *)
(* (init_nodes, init_edges, init_check_for_cycles and                      *)
(* init_check_for_cycles_roots), the schedule pass                         *)
(* set_startStopInfoByName and the public add_node.                        *)
(*                                                                         *)
(* Node names are the integers 1..NumNodes.  A Python dict is modelled by  *)
(* the sequence of its keys in insertion order (the values are the node    *)
(* objects the keys name), so that iteration order, list.pop() and max/min *)
(* tie-breaking are those of the code.                                     *)
(***************************************************************************)
EXTENDS Integers, Sequences, FiniteSets, TLC

\* ------------------------------------------------------------------------
\* Bounds of the model
\* ------------------------------------------------------------------------
NumNodes == 3

MaxDeps == 2

Names == 1..NumNodes

\* The name a caller passes to add_node after construction
NewName == NumNodes + 1

\* ------------------------------------------------------------------------
\* Constants of the program
\* ------------------------------------------------------------------------
WHITE == 0

GRAY == 1

BLACK == 2

SHUTDOWN == 1

STARTUP == 0

SecondsPerDay == 86400

MicrosPerSecond == 1000000

\* ------------------------------------------------------------------------
\* datetime.timedelta: normalised (days, seconds, microseconds) with
\* 0 <= seconds < 86400 and 0 <= microseconds < 1000000
\* ------------------------------------------------------------------------
timedelta(d, s, us) ==
    LET s1 == s + (us \div MicrosPerSecond)
    IN  [days         |-> d + (s1 \div SecondsPerDay),
         seconds      |-> s1 % SecondsPerDay,
         microseconds |-> us % MicrosPerSecond]

td_add(a, b) ==
    timedelta(a.days + b.days, a.seconds + b.seconds,
              a.microseconds + b.microseconds)

td_sub(a, b) ==
    timedelta(a.days - b.days, a.seconds - b.seconds,
              a.microseconds - b.microseconds)

ZeroTime == timedelta(0, 0, 0)

\* key=lambda td: td.days + 86400 * td.seconds, compared: key(a) < key(b).
\* a.days + 86400*a.seconds < b.days + 86400*b.seconds
\*   <=>  a.days - b.days < 86400 * (b.seconds - a.seconds)
\*   <=>  floor((a.days - b.days) / 86400) < b.seconds - a.seconds,
\* which keeps every intermediate value within 32 bits.
key_lt(a, b) ==
    ((a.days - b.days) \div SecondsPerDay) < (b.seconds - a.seconds)

\* max(times, key=...): the first element whose key is greatest
RECURSIVE max_by_key(_, _, _)
max_by_key(times, i, best) ==
    IF i > Len(times) THEN best
    ELSE max_by_key(times, i + 1,
                    IF key_lt(best, times[i]) THEN times[i] ELSE best)

\* min(times, key=...): the first element whose key is least
RECURSIVE min_by_key(_, _, _)
min_by_key(times, i, best) ==
    IF i > Len(times) THEN best
    ELSE min_by_key(times, i + 1,
                    IF key_lt(times[i], best) THEN times[i] ELSE best)

ref_time_extremum(dependency_direction, times) ==
    IF dependency_direction = STARTUP
    THEN max_by_key(times, 2, times[1])
    ELSE min_by_key(times, 2, times[1])

\* ------------------------------------------------------------------------
\* dict helpers (a dict is the sequence of its keys)
\* ------------------------------------------------------------------------
Range(s) == {s[i] : i \in 1..Len(s)}

dict_set(d, k) == IF k \in Range(d) THEN d ELSE Append(d, k)

dict_del(d, k) == SelectSeq(d, LAMBDA x : x # k)

NoException == [type |-> "None", message |-> ""]

\* ------------------------------------------------------------------------
\* Inputs of the constructor
\* ------------------------------------------------------------------------
SeqsUpTo(S, n) == UNION {[1..k -> S] : k \in 0..n}

minutes(m) == timedelta(0, 60 * m, 0)

\* The durations of the test suite: a = 1, b = 2, c = 4, ... minutes
TestAttributes(n) == [tstart |-> minutes(2 ^ (n - 1)), tstop |-> minutes(2 ^ (n - 1))]

\* Durations around the unit boundaries of timedelta
Durations ==
    {ZeroTime, timedelta(0, 0, 1), timedelta(0, 1, 0), timedelta(1, 0, 0)}

\* ------------------------------------------------------------------------
\* State
\* ------------------------------------------------------------------------
VARIABLES
    components,            \* argument: dict name -> attributes (keys 1..k)
    dependencies,          \* argument: list of <<component_name, required>>
    is_strict,             \* self.is_strict
    nodesByName,           \* self.nodesByName (keys)
    attributes,            \* node.attributes of every node
    children,              \* node.children of every node (keys)
    parents,               \* node.parents of every node (keys)
    rootsByName,           \* self.rootsByName (keys)
    leavesByName,          \* self.leavesByName (keys)
    startStopInfoByName,   \* self.startStopInfoByName
    start_tsorted_names,   \* self.start_tsorted_names
    rejected_dependencies, \* self.rejected_dependencies
    dep_index,             \* init_edges: position of "for dep in dependencies"
    root_list,             \* init_check_for_cycles: roots still to iterate
    nodeColorByName,       \* init_check_for_cycles: nodeColorByName
    indegreeByName,        \* init_check_for_cycles: indegreeByName
    unvisited_node_names,  \* init_check_for_cycles: unvisited_node_names
    unvisited_node_name,   \* init_check_for_cycles: unvisited_node_name
    parent_list,           \* init_check_for_cycles: list(parent_names) to do
    roots,                 \* init_check_for_cycles_roots: roots (the queue)
    root,                  \* init_check_for_cycles_roots: root (popped node)
    caller,                \* which call of init_check_for_cycles_roots runs
    exception,             \* the exception an operation raised, if any
    pc                     \* position in the program

vars == <<components, dependencies, is_strict, nodesByName, attributes,
          children, parents, rootsByName, leavesByName, startStopInfoByName,
          start_tsorted_names, rejected_dependencies, dep_index, root_list,
          nodeColorByName, indegreeByName, unvisited_node_names,
          unvisited_node_name, parent_list, roots, root, caller, exception,
          pc>>

graphVars == <<nodesByName, attributes, children, parents, rootsByName,
               leavesByName, startStopInfoByName, start_tsorted_names,
               rejected_dependencies>>

inputVars == <<components, dependencies, is_strict>>

cycleLocals == <<root_list, nodeColorByName, indegreeByName,
                 unvisited_node_names, unvisited_node_name, parent_list,
                 roots, root, caller>>

\* __init__, lines 110-117: the fields before init_nodes is called, for
\* a dict of k components named 1..k and a dependency list of at most
\* MaxDeps records over the names 1..NumNodes (a name above k is an unknown
\* component).
InitWith(componentDicts) ==
    /\ components \in componentDicts
    /\ dependencies \in SeqsUpTo(Names \X Names, MaxDeps)
    /\ is_strict \in BOOLEAN
    /\ nodesByName = <<>>
    /\ attributes = <<>>
    /\ children = <<>>
    /\ parents = <<>>
    /\ rootsByName = <<>>
    /\ leavesByName = <<>>
    /\ startStopInfoByName = <<>>
    /\ start_tsorted_names = <<>>
    /\ rejected_dependencies = <<>>
    /\ dep_index = 1
    /\ root_list = <<>>
    /\ nodeColorByName = <<>>
    /\ indegreeByName = <<>>
    /\ unvisited_node_names = <<>>
    /\ unvisited_node_name = 0
    /\ parent_list = <<>>
    /\ roots = <<>>
    /\ root = 0
    /\ caller = "none"
    /\ exception = NoException
    /\ pc = "init_nodes"

TestComponents == {[n \in 1..k |-> TestAttributes(n)] : k \in 0..NumNodes}

DurationComponents ==
    UNION {[1..k -> {[tstart |-> d, tstop |-> d] : d \in Durations}] :
             k \in 0..NumNodes}

Init == InitWith(TestComponents)

InitSched == InitWith(DurationComponents)

\* ------------------------------------------------------------------------
\* __init__: init_nodes and add_node
\* ------------------------------------------------------------------------
\* add_node, lines 154-155, for a name that is not yet a key: the new
\* DependencyNode has empty parents and children (lines 428-431)
nodes_with(nodes, name) == Append(nodes, name)

attrs_with(attrs, name, a) == attrs @@ (name :> a)

edges_with(edges, name) == edges @@ (name :> <<>>)

\* init_nodes, lines 296-301: add_node for every key of components; the
\* keys of a dict are distinct, so add_node never raises here
init_nodes ==
    /\ pc = "init_nodes"
    /\ nodesByName' = [i \in 1..Len(components) |-> i]
    /\ attributes' = [n \in DOMAIN components |-> components[n]]
    /\ children' = [n \in DOMAIN components |-> <<>>]
    /\ parents' = [n \in DOMAIN components |-> <<>>]
    /\ pc' = "init_edges"
    /\ UNCHANGED <<inputVars, rootsByName, leavesByName, startStopInfoByName,
                   start_tsorted_names, rejected_dependencies, dep_index,
                   cycleLocals, exception>>

\* ------------------------------------------------------------------------
\* init_edges
\* ------------------------------------------------------------------------
\* Mutation: the child is linked to the dependent, the parent side is
\* forgotten
link_parents_forgotten(pa, comp_name, req_name) == pa

\* lines 278-279: link parent and child
link_children(ch, comp_name, req_name) ==
    [ch EXCEPT ![comp_name] = dict_set(@, req_name)]

link_parents(pa, comp_name, req_name) ==
    [pa EXCEPT ![req_name] = dict_set(@, comp_name)]

\* Mutation: a repeated (component, requirement) pair is not detected
dep_exception_duplicate_accepted(comp_name, req_name) ==
    IF comp_name \notin Range(nodesByName)
    THEN [type |-> "ValueError", message |-> "Dependency has unknown component"]
    ELSE IF req_name \notin Range(nodesByName)
    THEN [type |-> "ValueError", message |-> "Dependecy on unknown component"]
    ELSE NoException

\* The exception a dependency record raises, lines 262-275
dep_exception(comp_name, req_name) ==
    IF comp_name \notin Range(nodesByName)
    THEN [type |-> "ValueError", message |-> "Dependency has unknown component"]
    ELSE IF req_name \notin Range(nodesByName)
    THEN [type |-> "ValueError", message |-> "Dependecy on unknown component"]
    ELSE IF req_name \in Range(children[comp_name])
    THEN [type |-> "DependencyDuplicateDependencyException", message |-> ""]
    ELSE NoException

\* init_edges, lines 261-279: one iteration of "for dep in dependencies"
init_edges_dep ==
    /\ pc = "init_edges"
    /\ dep_index <= Len(dependencies)
    /\ LET comp_name == dependencies[dep_index][1]
           req_name  == dependencies[dep_index][2]
           exc       == dep_exception(comp_name, req_name)
       IN  IF exc # NoException
           THEN /\ exception' = exc
                /\ pc' = "raised"
                /\ UNCHANGED <<children, parents, dep_index>>
           ELSE /\ children' = link_children(children, comp_name, req_name)
                /\ parents' = link_parents(parents, comp_name, req_name)
                /\ dep_index' = dep_index + 1
                /\ UNCHANGED <<exception, pc>>
    /\ UNCHANGED <<inputVars, nodesByName, attributes, rootsByName,
                   leavesByName, startStopInfoByName, start_tsorted_names,
                   rejected_dependencies, cycleLocals>>

\* Mutation: the parentless nodes are collected in reverse insertion order
root_names_of_reversed(nodes, pa) ==
    LET names == SelectSeq(nodes, LAMBDA n : pa[n] = <<>>)
    IN  [i \in 1..Len(names) |-> names[Len(names) + 1 - i]]

\* lines 281-282: the names, in nodesByName order, of the nodes without
\* parents
root_names_of(nodes, pa) == SelectSeq(nodes, LAMBDA n : pa[n] = <<>>)

RECURSIVE dict_update(_, _, _)
dict_update(d, keys, i) ==
    IF i > Len(keys) THEN d ELSE dict_update(dict_set(d, keys[i]), keys, i + 1)

\* init_edges, lines 281-291: after the loop, record the initial roots
init_edges_roots ==
    /\ pc = "init_edges"
    /\ dep_index > Len(dependencies)
    /\ rootsByName' = dict_update(rootsByName, root_names_of(nodesByName, parents), 1)
    /\ pc' = "init_check_for_cycles"
    /\ UNCHANGED <<inputVars, nodesByName, attributes, children, parents,
                   leavesByName, startStopInfoByName, start_tsorted_names,
                   rejected_dependencies, dep_index, cycleLocals, exception>>


\* ------------------------------------------------------------------------
\* init_check_for_cycles and init_check_for_cycles_roots
\* ------------------------------------------------------------------------
\* Mutation: the unvisited nodes are looked for under the wrong colour
white_names_wrong_color(nodes, color) ==
    SelectSeq(nodes, LAMBDA n : color[n] = GRAY)

\* lines 175-176 and 204-207: the names still WHITE, in nodesByName order
white_names(nodes, color) == SelectSeq(nodes, LAMBDA n : color[n] = WHITE)

\* Mutation: a node with parents is ready as soon as one parent is done
indegree_of_any_parent(nodes, pa) ==
    [n \in Range(nodes) |-> IF pa[n] = <<>> THEN 0 ELSE 1]

\* Mutation: the indegree counts one parent too many
indegree_of_off_by_one(nodes, pa) == [n \in Range(nodes) |-> Len(pa[n]) + 1]

\* lines 169-172
indegree_of(nodes, pa) == [n \in Range(nodes) |-> Len(pa[n])]

\* init_check_for_cycles, lines 164-172
init_check_for_cycles_begin ==
    /\ pc = "init_check_for_cycles"
    /\ root_list' = rootsByName
    /\ nodeColorByName' = [n \in Range(nodesByName) |-> WHITE]
    /\ indegreeByName' = indegree_of(nodesByName, parents)
    /\ pc' = "for_root"
    /\ UNCHANGED <<inputVars, graphVars, dep_index, unvisited_node_names,
                   unvisited_node_name, parent_list, roots, root, caller,
                   exception>>

\* init_check_for_cycles_roots, lines 223-226, for the one-element list the
\* callers pass: colour the root GRAY and append it to the sorted names
seed_color(color, name) == [color EXCEPT ![name] = GRAY]

seed_tsorted(tsorted, name) == Append(tsorted, name)

\* init_check_for_cycles, lines 173-174: one iteration of "for root in
\* roots", up to the while loop of the call
for_root ==
    /\ pc = "for_root"
    /\ root_list # <<>>
    /\ root_list' = Tail(root_list)
    /\ nodeColorByName' = seed_color(nodeColorByName, Head(root_list))
    /\ start_tsorted_names' = seed_tsorted(start_tsorted_names, Head(root_list))
    /\ roots' = <<Head(root_list)>>
    /\ caller' = "roots"
    /\ pc' = "while_roots"
    /\ UNCHANGED <<inputVars, nodesByName, attributes, children, parents,
                   rootsByName, leavesByName, startStopInfoByName,
                   rejected_dependencies, dep_index, indegreeByName,
                   unvisited_node_names, unvisited_node_name, parent_list,
                   root, exception>>

\* init_check_for_cycles, lines 175-178: the loop over the roots is over
for_root_done ==
    /\ pc = "for_root"
    /\ root_list = <<>>
    /\ unvisited_node_names' = white_names(nodesByName, nodeColorByName)
    /\ pc' = "check_unvisited"
    /\ UNCHANGED <<inputVars, graphVars, dep_index, root_list,
                   nodeColorByName, indegreeByName, unvisited_node_name,
                   parent_list, roots, root, caller, exception>>

\* Mutation: is_strict is not consulted, unvisited nodes are never an error
must_raise_never(strict, unvisited) == FALSE

\* Mutation: is_strict is not consulted, unvisited nodes are always an error
must_raise_always(strict, unvisited) == unvisited # <<>>

\* lines 179-180: unvisited nodes are an error in strict mode
must_raise(strict, unvisited) == unvisited # <<>> /\ strict

\* init_check_for_cycles, lines 179-183
raise_cycle ==
    /\ pc = "check_unvisited"
    /\ must_raise(is_strict, unvisited_node_names)
    /\ exception' = [type |-> "DependencyCycleException",
                     message |-> "One or more cycles exist among the following nodes"]
    /\ pc' = "raised"
    /\ UNCHANGED <<inputVars, graphVars, dep_index, cycleLocals>>

\* unvisited_node_names.pop(), line 186: the last element
list_pop(names) == names[Len(names)]

\* init_check_for_cycles, lines 185-188
promote_pop ==
    /\ pc = "check_unvisited"
    /\ unvisited_node_names # <<>>
    /\ ~must_raise(is_strict, unvisited_node_names)
    /\ unvisited_node_name' = list_pop(unvisited_node_names)
    /\ unvisited_node_names' =
           SubSeq(unvisited_node_names, 1, Len(unvisited_node_names) - 1)
    /\ parent_list' = parents[list_pop(unvisited_node_names)]
    /\ pc' = "strip"
    /\ UNCHANGED <<inputVars, graphVars, dep_index, root_list,
                   nodeColorByName, indegreeByName, roots, root, caller,
                   exception>>

KeyError == [type |-> "KeyError", message |-> ""]

\* Mutation: the edge is removed from the parents map only
unlink_children_forgotten(ch, parent_name, child_name) == ch

\* Mutation: the removed edge is discarded without a record
reject_silently(rejected, parent_name, child_name) == rejected

\* lines 190-191 and 250-251: unlink parent and child
unlink_parents(pa, parent_name, child_name) ==
    [pa EXCEPT ![child_name] = dict_del(@, parent_name)]

unlink_children(ch, parent_name, child_name) ==
    [ch EXCEPT ![parent_name] = dict_del(@, child_name)]

\* line 194-195 and 252
reject(rejected, parent_name, child_name) ==
    Append(rejected, <<parent_name, child_name>>)

\* init_check_for_cycles, lines 189-195: one iteration of "for parent_name
\* in list(parent_names)"; del raises KeyError for a key that is absent
strip_edge ==
    /\ pc = "strip"
    /\ parent_list # <<>>
    /\ LET parent_name == Head(parent_list)
       IN  IF parent_name \notin Range(parents[unvisited_node_name])
           THEN /\ exception' = KeyError
                /\ pc' = "raised"
                /\ UNCHANGED <<parents, children, rejected_dependencies,
                               parent_list>>
           ELSE IF unvisited_node_name \notin Range(children[parent_name])
           THEN /\ parents' = unlink_parents(parents, parent_name,
                                             unvisited_node_name)
                /\ exception' = KeyError
                /\ pc' = "raised"
                /\ UNCHANGED <<children, rejected_dependencies, parent_list>>
           ELSE /\ parents' = unlink_parents(parents, parent_name,
                                             unvisited_node_name)
                /\ children' = unlink_children(children, parent_name,
                                               unvisited_node_name)
                /\ rejected_dependencies' =
                       reject(rejected_dependencies, parent_name,
                              unvisited_node_name)
                /\ parent_list' = Tail(parent_list)
                /\ UNCHANGED <<exception, pc>>
    /\ UNCHANGED <<inputVars, nodesByName, attributes, rootsByName,
                   leavesByName, startStopInfoByName, start_tsorted_names,
                   dep_index, root_list, nodeColorByName, indegreeByName,
                   unvisited_node_names, unvisited_node_name, roots, root,
                   caller>>

\* Mutation: the promoted node is traversed but not recorded as a root
promoted_roots_forgotten(rootsDict, name) == rootsDict

\* line 198: self.rootsByName[unvisited_node_name] = unvisited_node
promoted_roots(rootsDict, name) == dict_set(rootsDict, name)

\* init_check_for_cycles, lines 196-203: the stripped node becomes a root
\* and init_check_for_cycles_roots is called for it, up to its while loop
promote_root ==
    /\ pc = "strip"
    /\ parent_list = <<>>
    /\ rootsByName' = promoted_roots(rootsByName, unvisited_node_name)
    /\ nodeColorByName' = seed_color(nodeColorByName, unvisited_node_name)
    /\ start_tsorted_names' = seed_tsorted(start_tsorted_names, unvisited_node_name)
    /\ roots' = <<unvisited_node_name>>
    /\ caller' = "unvisited"
    /\ pc' = "while_roots"
    /\ UNCHANGED <<inputVars, nodesByName, attributes, children, parents,
                   leavesByName, startStopInfoByName, rejected_dependencies,
                   dep_index, root_list, indegreeByName, unvisited_node_names,
                   unvisited_node_name, parent_list, root, exception>>

\* init_check_for_cycles_roots, lines 227-229: root = roots.pop(0)
roots_pop ==
    /\ pc = "while_roots"
    /\ roots # <<>>
    /\ root' = Head(roots)
    /\ roots' = Tail(roots)
    /\ nodeColorByName' = [nodeColorByName EXCEPT ![Head(roots)] = GRAY]
    /\ pc' = "scan"
    /\ UNCHANGED <<inputVars, graphVars, dep_index, root_list, indegreeByName,
                   unvisited_node_names, unvisited_node_name, parent_list,
                   caller, exception>>

\* Mutation: a child whose indegree reaches zero is queued but not
\* appended to the sorted names
visit_white_unsorted(st, child_name) ==
    LET indeg == [st.indegree EXCEPT ![child_name] = @ - 1]
    IN  IF indeg[child_name] = 0
        THEN [st EXCEPT !.indegree = indeg,
                        !.queue = Append(@, child_name)]
        ELSE [st EXCEPT !.indegree = indeg]

\* lines 234-238: a WHITE child loses one unit of indegree and, at zero, is
\* appended to the sorted names and to the queue (it stays WHITE until it
\* is popped)
visit_white(st, child_name) ==
    LET indeg == [st.indegree EXCEPT ![child_name] = @ - 1]
    IN  IF indeg[child_name] = 0
        THEN [st EXCEPT !.indegree = indeg,
                        !.tsorted = Append(@, child_name),
                        !.queue = Append(@, child_name)]
        ELSE [st EXCEPT !.indegree = indeg]

\* lines 239-247: a GRAY child is a back-edge
visit_gray(st, child_name, strict) ==
    IF strict
    THEN [st EXCEPT !.raised = TRUE]
    ELSE [st EXCEPT !.toDelete = dict_set(@, child_name)]

\* lines 232-247: the loop over root.children.items(), from position i; it
\* stops where the strict mode raises
RECURSIVE scan_children(_, _, _, _, _)
scan_children(child_names, i, color, strict, st) ==
    IF i > Len(child_names) \/ st.raised THEN st
    ELSE LET child_name == child_names[i]
             st1 == IF color[child_name] = WHITE
                    THEN visit_white(st, child_name) ELSE st
             st2 == IF color[child_name] = GRAY
                    THEN visit_gray(st1, child_name, strict) ELSE st1
         IN  scan_children(child_names, i + 1, color, strict, st2)

\* lines 248-252: unlink the children to be deleted, from position i
RECURSIVE delete_children(_, _, _, _)
delete_children(root_name, toDelete, i, g) ==
    IF i > Len(toDelete) THEN g
    ELSE delete_children(root_name, toDelete, i + 1,
             [parents  |-> unlink_parents(g.parents, root_name, toDelete[i]),
              children |-> unlink_children(g.children, root_name, toDelete[i]),
              rejected |-> reject(g.rejected, root_name, toDelete[i])])

\* Mutation: the scanned node is not coloured BLACK and stays GRAY
finish_color_stays_gray(color, name) == color

\* line 253
finish_color(color, name) == [color EXCEPT ![name] = BLACK]

\* init_check_for_cycles_roots, lines 231-253: the body of the while loop
\* for the popped root
scan_root ==
    /\ pc = "scan"
    /\ LET st == scan_children(children[root], 1, nodeColorByName, is_strict,
                     [indegree |-> indegreeByName,
                      tsorted  |-> start_tsorted_names,
                      queue    |-> roots,
                      toDelete |-> <<>>,
                      raised   |-> FALSE])
           g  == delete_children(root, st.toDelete, 1,
                     [parents  |-> parents,
                      children |-> children,
                      rejected |-> rejected_dependencies])
       IN  /\ indegreeByName' = st.indegree
           /\ start_tsorted_names' = st.tsorted
           /\ roots' = st.queue
           /\ IF st.raised
              THEN /\ exception' = [type |-> "DependencyCycleException",
                                    message |-> "Back-edge found"]
                   /\ pc' = "raised"
                   /\ UNCHANGED <<parents, children, rejected_dependencies,
                                  nodeColorByName>>
              ELSE /\ parents' = g.parents
                   /\ children' = g.children
                   /\ rejected_dependencies' = g.rejected
                   /\ nodeColorByName' = finish_color(nodeColorByName, root)
                   /\ pc' = "while_roots"
                   /\ UNCHANGED exception
    /\ UNCHANGED <<inputVars, nodesByName, attributes, rootsByName,
                   leavesByName, startStopInfoByName, dep_index, root_list,
                   unvisited_node_names, unvisited_node_name, parent_list,
                   root, caller>>

\* init_check_for_cycles_roots returns when roots is empty: to line 173 in
\* the loop over the initial roots, to lines 204-207 in the loop over the
\* unvisited nodes
roots_return ==
    /\ pc = "while_roots"
    /\ roots = <<>>
    /\ IF caller = "roots"
       THEN /\ pc' = "for_root"
            /\ UNCHANGED unvisited_node_names
       ELSE /\ unvisited_node_names' = white_names(nodesByName, nodeColorByName)
            /\ pc' = "check_unvisited"
    /\ UNCHANGED <<inputVars, graphVars, dep_index, root_list,
                   nodeColorByName, indegreeByName, unvisited_node_name,
                   parent_list, roots, root, caller, exception>>

\* lines 211-214
leaf_names_of(nodes, ch) == SelectSeq(nodes, LAMBDA n : ch[n] = <<>>)

\* init_check_for_cycles, lines 208-214, and the return of __init__
set_leaves ==
    /\ pc = "check_unvisited"
    /\ unvisited_node_names = <<>>
    /\ leavesByName' = leaf_names_of(nodesByName, children)
    /\ pc' = "done"
    /\ UNCHANGED <<inputVars, nodesByName, attributes, children, parents,
                   rootsByName, startStopInfoByName, start_tsorted_names,
                   rejected_dependencies, dep_index, cycleLocals, exception>>

\* ------------------------------------------------------------------------
\* set_startStopInfoByName
\* ------------------------------------------------------------------------
MaxAdded == 1

reversed(names) == [i \in 1..Len(names) |-> names[Len(names) + 1 - i]]

\* lines 320-333: the strategy of a direction
tsorted_names(dependency_direction, tsorted) ==
    IF dependency_direction = STARTUP THEN tsorted ELSE reversed(tsorted)

get_parents(dependency_direction, name, pa, ch) ==
    IF dependency_direction = STARTUP THEN pa[name] ELSE ch[name]

REF_KEY(dependency_direction) ==
    IF dependency_direction = STARTUP THEN "endStartup" ELSE "beginShutdown"

\* lines 351-360: the two entries a direction writes for a node
start_stop_update(dependency_direction, reference_time, attrs) ==
    IF dependency_direction = STARTUP
    THEN [beginStartup |-> reference_time,
          endStartup   |-> td_add(reference_time, attrs.tstart)]
    ELSE [beginShutdown |-> td_sub(reference_time, attrs.tstop),
          endShutdown   |-> reference_time]

\* Mutation: the reference time is not reset for a node without
\* parent_names, it carries the latest reference entry already recorded
reference_time_of_carried(dependency_direction, parent_names, info) ==
    LET key  == REF_KEY(dependency_direction)
        have == {n \in DOMAIN info : key \in DOMAIN info[n]}
    IN  IF parent_names = <<>>
        THEN IF have = {} THEN ZeroTime
             ELSE info[CHOOSE n \in have :
                         \A m \in have : ~key_lt(info[n][key], info[m][key])][key]
        ELSE ref_time_extremum(dependency_direction,
                 [i \in 1..Len(parent_names) |-> info[parent_names[i]][key]])

\* lines 339-349: the reference time of a node whose parent_names all have
\* their REF_KEY entry
reference_time_of(dependency_direction, parent_names, info) ==
    IF parent_names = <<>> THEN ZeroTime
    ELSE ref_time_extremum(dependency_direction,
             [i \in 1..Len(parent_names) |->
                 info[parent_names[i]][REF_KEY(dependency_direction)]])

\* lines 335-360: the loop over tsorted_names, from position i; the lookup
\* of line 343 raises KeyError for a parent without its REF_KEY entry
RECURSIVE set_info(_, _, _, _, _, _, _)
set_info(dependency_direction, names, i, pa, ch, attrs, st) ==
    IF i > Len(names) \/ st.raised THEN st
    ELSE LET name == names[i]
             info0 == IF name \in DOMAIN st.info THEN st.info
                      ELSE st.info @@ (name :> <<>>)
             parent_names == get_parents(dependency_direction, name, pa, ch)
             missing == \E j \in 1..Len(parent_names) :
                           \/ parent_names[j] \notin DOMAIN info0
                           \/ REF_KEY(dependency_direction)
                                 \notin DOMAIN info0[parent_names[j]]
         IN  IF missing
             THEN [info |-> info0, raised |-> TRUE]
             ELSE set_info(dependency_direction, names, i + 1, pa, ch, attrs,
                      [info |-> [info0 EXCEPT ![name] =
                                    start_stop_update(dependency_direction,
                                        reference_time_of(dependency_direction,
                                            parent_names, info0),
                                        attrs[name]) @@ @],
                       raised |-> FALSE])

\* set_startStopInfoByName, lines 312-363, called on a constructed graph
\* with one of the two directions
set_startStopInfoByName ==
    /\ pc = "done"
    /\ \E dependency_direction \in {STARTUP, SHUTDOWN} :
         LET st == set_info(dependency_direction,
                       tsorted_names(dependency_direction, start_tsorted_names),
                       1, parents, children, attributes,
                       [info |-> startStopInfoByName, raised |-> FALSE])
         IN  /\ startStopInfoByName' = st.info
             /\ exception' = IF st.raised THEN KeyError ELSE NoException
    /\ UNCHANGED <<inputVars, nodesByName, attributes, children, parents,
                   rootsByName, leavesByName, start_tsorted_names,
                   rejected_dependencies, dep_index, cycleLocals, pc>>

\* ------------------------------------------------------------------------
\* add_node, called by a client on a constructed graph
\* ------------------------------------------------------------------------
\* add_node, lines 148-156
add_node ==
    /\ pc = "done"
    /\ \E name \in 1..NewName :
         \E a \in {TestAttributes(name), [tstart |-> ZeroTime, tstop |-> ZeroTime]} :
           IF name \in Range(nodesByName)
           THEN /\ exception' = [type |-> "ValueError",
                                 message |-> "Attempt to duplicate component identifier"]
                /\ UNCHANGED <<nodesByName, attributes, children, parents>>
           ELSE /\ Len(nodesByName) < Len(components) + MaxAdded
                /\ nodesByName' = nodes_with(nodesByName, name)
                /\ attributes' = attrs_with(attributes, name, a)
                /\ children' = edges_with(children, name)
                /\ parents' = edges_with(parents, name)
                /\ exception' = NoException
    /\ UNCHANGED <<inputVars, rootsByName, leavesByName, startStopInfoByName,
                   start_tsorted_names, rejected_dependencies, dep_index,
                   cycleLocals, pc>>

\* ------------------------------------------------------------------------
\* Specifications
\* ------------------------------------------------------------------------
Next ==
    \/ init_nodes
    \/ init_edges_dep
    \/ init_edges_roots
    \/ init_check_for_cycles_begin
    \/ for_root
    \/ for_root_done
    \/ raise_cycle
    \/ promote_pop
    \/ strip_edge
    \/ promote_root
    \/ roots_pop
    \/ scan_root
    \/ roots_return
    \/ set_leaves
    \/ set_startStopInfoByName
    \/ add_node

\* Construction and use of a graph with the durations of the test suite
Spec == Init /\ [][Next]_vars

\* The steps of __init__: the constructor runs them one after the other
\* without waiting for anything, lines 118-134
construction ==
    \/ init_nodes
    \/ init_edges_dep
    \/ init_edges_roots
    \/ init_check_for_cycles_begin
    \/ for_root
    \/ for_root_done
    \/ raise_cycle
    \/ promote_pop
    \/ strip_edge
    \/ promote_root
    \/ roots_pop
    \/ scan_root
    \/ roots_return
    \/ set_leaves

\* Spec with a constructor that keeps running until it returns or raises
SpecFair == Init /\ [][Next]_vars /\ WF_vars(construction)

\* Construction and use of a graph with durations around the unit
\* boundaries of timedelta
SpecSched == InitSched /\ [][Next]_vars

\* ------------------------------------------------------------------------
\* Vocabulary of the properties
\* ------------------------------------------------------------------------
TypeOK == pc \in {"init_nodes", "init_edges", "init_check_for_cycles",
                  "for_root", "check_unvisited", "strip", "while_roots",
                  "scan", "done", "raised"}

Nodes == Range(nodesByName)

\* __init__ has returned and no client has added a node since
Constructed == pc = "done" /\ Len(nodesByName) = Len(components)

\* The edges of the graph: <<A, B>> when B is in A.children
Edges == {e \in Nodes \X Nodes : e[2] \in Range(children[e[1]])}

\* The same edges read from the parents maps
ParentEdges == {e \in Nodes \X Nodes : e[1] \in Range(parents[e[2]])}

\* The edges of the input
InputEdges == Range(dependencies)

\* num_edges(), lines 303-307, and num_nodes(), lines 309-310
RECURSIVE sum_len(_, _, _)
sum_len(ch, names, i) ==
    IF i > Len(names) THEN 0 ELSE Len(ch[names[i]]) + sum_len(ch, names, i + 1)

num_edges == sum_len(children, nodesByName, 1)

num_nodes == Len(nodesByName)

\* All endpoints are components and no dependency is listed twice
ValidInput ==
    /\ \A i \in 1..Len(dependencies) :
          /\ dependencies[i][1] \in DOMAIN components
          /\ dependencies[i][2] \in DOMAIN components
    /\ \A i, j \in 1..Len(dependencies) :
          dependencies[i] = dependencies[j] => i = j

RECURSIVE TransitiveClosure(_)
TransitiveClosure(R) ==
    LET R2 == R \cup {<<e[1], f[2]>> : e, f \in R}
        R3 == {g \in R2 : g \in R \/ \E e, f \in R :
                                        e[2] = f[1] /\ g = <<e[1], f[2]>>}
    IN  IF R3 = R THEN R ELSE TransitiveClosure(R3)

\* The relation has a directed cycle, self-loops included
Cyclic(R) == \E e \in TransitiveClosure(R) : e[1] = e[2]

Position(names, n) == CHOOSE i \in 1..Len(names) : names[i] = n

NoDuplicates(list) == \A i, j \in 1..Len(list) : list[i] = list[j] => i = j

\* a < b as timedelta compares: by the exact value
td_lt(a, b) ==
    \/ a.days < b.days
    \/ a.days = b.days /\ a.seconds < b.seconds
    \/ a.days = b.days /\ a.seconds = b.seconds
          /\ a.microseconds < b.microseconds

TrueMax(times) == CHOOSE t \in times : \A u \in times : ~td_lt(t, u)

TrueMin(times) == CHOOSE t \in times : \A u \in times : ~td_lt(u, t)

\* ------------------------------------------------------------------------
\* Properties
\* ------------------------------------------------------------------------

\* C1: whenever construction completes without raising, in either mode,
\* start_tsorted_names contains every node name of nodesByName exactly once
\* and nothing else.
C1_TsortedIsPermutation ==
    Constructed =>
        /\ Range(start_tsorted_names) = Nodes
        /\ NoDuplicates(start_tsorted_names)
        /\ Len(start_tsorted_names) = num_nodes

\* A non-strict construction that promoted a node and sorted three nodes,
\* one of them with two parents in the input
C1_Witness ==
    /\ Constructed
    /\ ~is_strict
    /\ rejected_dependencies # <<>>
    /\ num_nodes = 3
    /\ \E i, j \in 1..Len(dependencies) :
          i # j /\ dependencies[i][2] = dependencies[j][2]

\* C2: after successful construction, for every edge still present
\* (dependent A has requirement B in A.children), A is at a strictly
\* earlier position of start_tsorted_names than B.
C2_TsortedRespectsEdges ==
    Constructed =>
        \A e \in Edges :
            /\ e[1] \in Range(start_tsorted_names)
            /\ e[2] \in Range(start_tsorted_names)
            /\ Position(start_tsorted_names, e[1])
                 < Position(start_tsorted_names, e[2])

\* A constructed graph in which a node kept two parents
C2_Witness ==
    /\ Constructed
    /\ \E n \in Nodes : Len(parents[n]) >= 2

\* C3 as stated: in strict mode every input whose dependency edges contain
\* a directed cycle ends in DependencyCycleException.
C3_Original ==
    (is_strict /\ Cyclic(InputEdges) /\ pc = "raised")
        => exception.type = "DependencyCycleException"

\* C3, amended: in strict mode an input whose dependency edges contain a
\* directed cycle never returns a graph, and when its endpoints are all
\* known and no dependency is listed twice the exception raised is
\* DependencyCycleException.
C3_StrictCycleRaises ==
    (is_strict /\ Cyclic(InputEdges)) =>
        /\ pc # "done"
        /\ (pc = "raised" /\ ValidInput)
              => exception.type = "DependencyCycleException"

\* A strict construction raised for a cycle of length two that no root
\* reaches, in a graph that has a root
C3_Witness ==
    /\ pc = "raised"
    /\ is_strict
    /\ ValidInput
    /\ exception.type = "DependencyCycleException"
    /\ rootsByName # <<>>
    /\ \E a, b \in Nodes :
          /\ a # b
          /\ {<<a, b>>, <<b, a>>} \subseteq InputEdges
          /\ \A r \in Range(rootsByName) :
                <<r, a>> \notin TransitiveClosure(InputEdges)

\* C4: for every valid acyclic input, construction succeeds in both modes,
\* keeps every input edge (num_edges() is the number of dependency records,
\* num_nodes() the number of components) and leaves rejected_dependencies
\* empty.
C4_AcyclicInputKept ==
    (ValidInput /\ ~Cyclic(InputEdges)) =>
        /\ pc # "raised"
        /\ rejected_dependencies = <<>>
        /\ pc = "done" => /\ Edges = InputEdges
                          /\ num_edges = Len(dependencies)
        /\ Constructed => num_nodes = Len(components)

\* A strict construction has returned a graph in which one node has two
\* parents
C4_Witness ==
    /\ Constructed
    /\ is_strict
    /\ Len(dependencies) = 2
    /\ num_edges = 2
    /\ \E n \in Nodes : Len(parents[n]) = 2

\* C5: in non-strict mode, construction on any input with known endpoints
\* and no duplicate dependency raises nothing, and the children maps after
\* construction contain no directed cycle, self-loops included.
C5_NonStrictAcyclic ==
    (~is_strict /\ ValidInput) =>
        /\ pc # "raised"
        /\ pc = "done" => ~Cyclic(Edges)

\* A non-strict construction of a cyclic input has returned
C5_Witness ==
    /\ pc = "done"
    /\ ~is_strict
    /\ Cyclic(InputEdges)
    /\ Edges # {}

\* C6: after non-strict construction the surviving edges and
\* rejected_dependencies partition the input dependency set, and no edge is
\* recorded twice in rejected_dependencies.
C6_RejectedPartition ==
    (pc = "done" /\ ~is_strict) =>
        /\ Edges \cup Range(rejected_dependencies) = InputEdges
        /\ Edges \cap Range(rejected_dependencies) = {}
        /\ NoDuplicates(rejected_dependencies)
        /\ num_edges + Len(rejected_dependencies) = Len(dependencies)

\* A non-strict construction that rejected one edge and kept one
C6_Witness ==
    /\ pc = "done"
    /\ ~is_strict
    /\ Len(rejected_dependencies) = 1
    /\ num_edges = 1

\* C7: after non-strict construction, putting any edge of
\* rejected_dependencies back into the surviving edges creates a directed
\* cycle.
C7_RejectedNecessary ==
    (pc = "done" /\ ~is_strict) =>
        \A e \in Range(rejected_dependencies) : Cyclic(Edges \cup {e})

\* C8: after every edge insertion and every edge removal step, in both
\* modes, X is in A.children if and only if A is in X.parents.
C8_EdgeSymmetry ==
    /\ DOMAIN children = Nodes
    /\ DOMAIN parents = Nodes
    /\ Edges = ParentEdges

\* In the middle of stripping the incoming edges of a promoted node: one
\* edge removed, another still to remove
C8_Witness ==
    /\ pc = "strip"
    /\ rejected_dependencies # <<>>
    /\ parent_list # <<>>
    /\ Edges # {}

HasStartup(n) ==
    /\ n \in DOMAIN startStopInfoByName
    /\ "beginStartup" \in DOMAIN startStopInfoByName[n]

HasShutdown(n) ==
    /\ n \in DOMAIN startStopInfoByName
    /\ "beginShutdown" \in DOMAIN startStopInfoByName[n]

\* C9: the startup pass gives every node N beginStartup = 0 when N.parents
\* is empty and otherwise the true maximum of endStartup over its parents,
\* and endStartup = beginStartup + N's startup duration.
C9_StartupTimes ==
    pc = "done" =>
        \A n \in Nodes :
            HasStartup(n) =>
                /\ \A p \in Range(parents[n]) : HasStartup(p)
                /\ startStopInfoByName[n].beginStartup =
                     IF parents[n] = <<>> THEN ZeroTime
                     ELSE TrueMax({startStopInfoByName[p].endStartup :
                                     p \in Range(parents[n])})
                /\ startStopInfoByName[n].endStartup =
                     td_add(startStopInfoByName[n].beginStartup,
                            attributes[n].tstart)

\* C10: the shutdown pass gives every node N endShutdown = 0 when
\* N.children is empty and otherwise the true minimum of beginShutdown over
\* its children, and beginShutdown = endShutdown - N's shutdown duration.
C10_ShutdownTimes ==
    pc = "done" =>
        \A n \in Nodes :
            HasShutdown(n) =>
                /\ \A c \in Range(children[n]) : HasShutdown(c)
                /\ startStopInfoByName[n].endShutdown =
                     IF children[n] = <<>> THEN ZeroTime
                     ELSE TrueMin({startStopInfoByName[c].beginShutdown :
                                     c \in Range(children[n])})
                /\ startStopInfoByName[n].beginShutdown =
                     td_sub(startStopInfoByName[n].endShutdown,
                            attributes[n].tstop)

\* The keys recorded for every name of startStopInfoByName
KeysOf(info) == [n \in DOMAIN info |-> DOMAIN info[n]]

\* C11: running set_startStopInfoByName again with a direction that has
\* already been run on the graph (the run adds no key to
\* startStopInfoByName) leaves startStopInfoByName identical, for STARTUP
\* and for SHUTDOWN.
C11_SecondRunIdentical ==
    [][KeysOf(startStopInfoByName') = KeysOf(startStopInfoByName)
          => startStopInfoByName' = startStopInfoByName]_vars

\* Both directions have been run on a graph of three nodes and two edges, so
\* that every further run is a second run
C11_Witness ==
    /\ Constructed
    /\ num_nodes = 3
    /\ num_edges = 2
    /\ \A n \in Nodes : HasStartup(n) /\ HasShutdown(n)

\* The i-th dependency record names a component or a requirement that is not
\* a component
UnknownEndpoint(i) ==
    \/ dependencies[i][1] \notin DOMAIN components
    \/ dependencies[i][2] \notin DOMAIN components

\* The i-th dependency record repeats an earlier record
RepeatedPair(i) == \E j \in 1..(i - 1) : dependencies[j] = dependencies[i]

\* The exception types of init_edges
InitEdgesErrors == {"ValueError", "DependencyDuplicateDependencyException"}

\* C12: init_edges adds a dependency only when both endpoints are known nodes
\* and the edge is not already present.  While init_edges runs the edges are
\* exactly the records consumed so far; the first record with an unknown
\* endpoint aborts construction with ValueError, the first record repeating
\* an added pair aborts it with DependencyDuplicateDependencyException, and
\* an input with such a record never gets past init_edges (no graph is
\* returned); an input without one never raises either exception.
C12_InitEdgesErrors ==
    /\ pc = "init_edges" =>
          /\ Edges = {dependencies[i] : i \in 1..(dep_index - 1)}
          /\ \A i \in 1..(dep_index - 1) : ~UnknownEndpoint(i) /\ ~RepeatedPair(i)
    /\ ~ValidInput => pc \in {"init_nodes", "init_edges", "raised"}
    /\ (pc = "raised" /\ exception.type \in InitEdgesErrors) =>
          /\ dep_index \in 1..Len(dependencies)
          /\ \A i \in 1..(dep_index - 1) : ~UnknownEndpoint(i) /\ ~RepeatedPair(i)
          /\ Edges = {dependencies[i] : i \in 1..(dep_index - 1)}
          /\ UnknownEndpoint(dep_index) <=> exception.type = "ValueError"
          /\ (~UnknownEndpoint(dep_index) /\ RepeatedPair(dep_index)) <=>
                exception.type = "DependencyDuplicateDependencyException"
    /\ (pc = "raised" /\ ~ValidInput) => exception.type \in InitEdgesErrors
    /\ (pc # "done" /\ ValidInput) => exception.type \notin InitEdgesErrors

\* Construction was aborted by the second record, which repeats the first
C12_Witness ==
    /\ pc = "raised"
    /\ exception.type = "DependencyDuplicateDependencyException"
    /\ dep_index = 2
    /\ num_edges = 1
    /\ dependencies[1] = dependencies[2]

\* Construction was aborted by a record with an unknown requirement
C12_WitnessUnknown ==
    /\ pc = "raised"
    /\ exception = [type |-> "ValueError", message |-> "Dependecy on unknown component"]
    /\ dep_index = 2
    /\ num_edges = 1

\* C13: after successful construction in either mode, including after edges
\* were excised, rootsByName is exactly the set of nodes whose parents map is
\* empty and leavesByName is exactly the set of nodes whose children map is
\* empty.
C13_RootsAndLeavesExact ==
    Constructed =>
        /\ Range(rootsByName) = {n \in Nodes : parents[n] = <<>>}
        /\ Range(leavesByName) = {n \in Nodes : children[n] = <<>>}
        /\ NoDuplicates(rootsByName)
        /\ NoDuplicates(leavesByName)

\* A non-strict construction excised an edge, kept another one, and ended
\* with two roots, one of them promoted
C13_Witness ==
    /\ Constructed
    /\ ~is_strict
    /\ rejected_dependencies # <<>>
    /\ num_edges >= 1
    /\ Len(rootsByName) = 2
    /\ Len(leavesByName) < num_nodes

\* The children and parents maps exactly as init_edges builds them from the
\* first n dependency records, in insertion order
RECURSIVE children_built(_), parents_built(_)
children_built(n) ==
    IF n = 0 THEN [name \in Nodes |-> <<>>]
    ELSE link_children(children_built(n - 1), dependencies[n][1], dependencies[n][2])

parents_built(n) ==
    IF n = 0 THEN [name \in Nodes |-> <<>>]
    ELSE link_parents(parents_built(n - 1), dependencies[n][1], dependencies[n][2])

\* C14: in strict mode no edge is ever removed and rejected_dependencies
\* stays empty in every reachable state of construction, including the state
\* in which DependencyCycleException is raised: the children and parents maps
\* at the moment of the raise are exactly those built by init_edges.
C14_StrictNeverMutates ==
    is_strict =>
        /\ rejected_dependencies = <<>>
        /\ pc \notin {"init_nodes", "init_edges"} =>
              LET n == IF exception.type \in InitEdgesErrors /\ pc = "raised"
                       THEN dep_index - 1 ELSE Len(dependencies)
              IN  /\ children = children_built(n)
                  /\ parents = parents_built(n)
        /\ (pc = "raised" /\ exception.type = "DependencyCycleException") =>
              /\ Edges = InputEdges
              /\ ParentEdges = InputEdges
              /\ num_edges = Len(dependencies)

\* Strict construction raised DependencyCycleException on an input of two
\* dependencies, both still linked
C14_Witness ==
    /\ is_strict
    /\ pc = "raised"
    /\ exception.type = "DependencyCycleException"
    /\ num_edges = 2
    /\ Edges = InputEdges

\* A node with no parents in the input
IsInitialRoot(n) == \A e \in InputEdges : e[2] # n

\* The initial roots, in the order in which they occur in a list of names
InitialRootsIn(names) == SelectSeq(names, IsInitialRoot)

\* n can be reached from m along edges of the input
ReachableFrom(m, n) == m = n \/ <<m, n>> \in TransitiveClosure(InputEdges)

\* C15 as stated: the traversal seeds one FIFO queue with all initial roots
\* at once, so that in start_tsorted_names every initial root appears, in
\* input insertion order, before any node that is not an initial root.
C15_Original ==
    Constructed =>
        /\ InitialRootsIn(start_tsorted_names) = InitialRootsIn(nodesByName)
        /\ \A r, m \in Nodes :
              (IsInitialRoot(r) /\ ~IsInitialRoot(m)) =>
                  Position(start_tsorted_names, r)
                     < Position(start_tsorted_names, m)

\* C15, amended: the traversal is run once per initial root, in input
\* insertion order, each run seeding its own queue with that one root.  In
\* start_tsorted_names the initial roots appear in input insertion order
\* relative to each other, and a node that is not an initial root precedes an
\* initial root only if it is reachable from an initial root that comes
\* earlier in the insertion order.
C15_RootsOneAtATime ==
    Constructed =>
        /\ InitialRootsIn(start_tsorted_names) = InitialRootsIn(nodesByName)
        /\ \A r, m \in Nodes :
              (/\ IsInitialRoot(r)
               /\ ~IsInitialRoot(m)
               /\ Position(start_tsorted_names, m)
                     < Position(start_tsorted_names, r)) =>
                  \E q \in Nodes :
                      /\ IsInitialRoot(q)
                      /\ Position(nodesByName, q) < Position(nodesByName, r)
                      /\ ReachableFrom(q, m)

\* A constructed graph with two initial roots in which a node that is not an
\* initial root is sorted before the second initial root
C15_Witness ==
    /\ Constructed
    /\ Len(InitialRootsIn(nodesByName)) = 2
    /\ \E r, m \in Nodes :
          /\ IsInitialRoot(r)
          /\ ~IsInitialRoot(m)
          /\ Position(start_tsorted_names, m) < Position(start_tsorted_names, r)

\* n lies on a directed cycle of the input graph
OnCycle(n) == <<n, n>> \in TransitiveClosure(InputEdges)

\* The traversal from the initial roots has drained and no node has been
\* promoted yet: line 175 has just been executed, or the strict raise of
\* lines 179-183 has followed it
RootsDrained ==
    \/ pc = "check_unvisited" /\ caller # "unvisited"
    \/ pc = "raised" /\ exception.type = "DependencyCycleException"

\* C16 as stated: after the traversal from the initial roots has drained,
\* every node that is still WHITE lies on a directed cycle of the input
\* graph.
C16_Original ==
    RootsDrained =>
        \A n \in Nodes : nodeColorByName[n] = WHITE => OnCycle(n)

\* C16, amended: after the traversal from the initial roots has drained, the
\* nodes that are still WHITE, which are those listed in
\* unvisited_node_names, are exactly the nodes that lie on a directed cycle
\* of the input graph or can be reached from a node on one.
C16_WhiteBehindCycle ==
    RootsDrained =>
        /\ Range(unvisited_node_names) = {n \in Nodes : nodeColorByName[n] = WHITE}
        /\ \A n \in Nodes :
              nodeColorByName[n] = WHITE <=>
                  \E m \in Nodes : OnCycle(m) /\ ReachableFrom(m, n)

\* The traversal has drained leaving a WHITE node that lies on no cycle
C16_Witness ==
    /\ pc = "check_unvisited"
    /\ caller # "unvisited"
    /\ \E n \in Nodes : nodeColorByName[n] = WHITE /\ ~OnCycle(n)

\* The nodes that are WHITE according to a colouring
WhiteIn(colors) == {n \in DOMAIN colors : colors[n] = WHITE}

\* C17: non-strict cycle resolution terminates on every finite input.  Once
\* init_edges has succeeded in non-strict mode construction completes; a
\* coloured node never becomes WHITE again, and when the traversal of a
\* promoted node returns (lines 204-207) that node is no longer in the
\* recomputed list of unvisited nodes, so every promotion shrinks the set of
\* WHITE nodes.
C17_NonStrictTerminates ==
    /\ (~is_strict /\ pc = "init_check_for_cycles") ~> (pc = "done")
    /\ [][pc \notin {"init_check_for_cycles", "init_nodes", "init_edges"}
             => WhiteIn(nodeColorByName') \subseteq WhiteIn(nodeColorByName)]_vars
    /\ [][(pc = "while_roots" /\ pc' = "check_unvisited")
             => /\ unvisited_node_name \notin Range(unvisited_node_names')
                /\ Range(unvisited_node_names') = WhiteIn(nodeColorByName')]_vars

\* A non-strict construction that needed two promotions has completed
C17_Witness ==
    /\ Constructed
    /\ ~is_strict
    /\ caller = "unvisited"
    /\ Cardinality({n \in Nodes : parents[n] = <<>> /\ ~IsInitialRoot(n)}) = 2

\* C18: when a graph is mutated after construction through add_node, cycle
\* resolution is re-run and earlier schedule results are invalidated: on a
\* graph that __init__ has returned, whether or not nodes were added since,
\* start_tsorted_names, rootsByName and leavesByName cover every node of
\* nodesByName (every node is sorted, the parentless nodes are the roots, the
\* childless nodes are the leaves), and the times of a direction are
\* recorded either for no node (invalidated) or for every node (assigned by
\* the following schedule pass).
C18_AddNodeResolved ==
    pc = "done" =>
        /\ Range(start_tsorted_names) = Nodes
        /\ Range(rootsByName) = {n \in Nodes : parents[n] = <<>>}
        /\ Range(leavesByName) = {n \in Nodes : children[n] = <<>>}
        /\ (\E n \in Nodes : HasStartup(n)) => (\A n \in Nodes : HasStartup(n))
        /\ (\E n \in Nodes : HasShutdown(n)) => (\A n \in Nodes : HasShutdown(n))

\* The nodes that are GRAY according to a colouring
GrayIn(colors) == {n \in DOMAIN colors : colors[n] = GRAY}

\* C19: during cycle resolution at most one node is GRAY at any time, the
\* node just seeded or popped from the queue, and the child-is-GRAY branch of
\* init_check_for_cycles_roots is never taken: no scanned node has a GRAY
\* child, 'Back-edge found' is never raised, and rejected_dependencies only
\* grows in the promote-and-strip step of init_check_for_cycles.
C19_BackEdgeBranchDead ==
    /\ [](/\ Cardinality(GrayIn(nodeColorByName)) <= 1
          /\ exception.message # "Back-edge found"
          /\ pc = "scan" =>
                /\ GrayIn(nodeColorByName) = {root}
                /\ \A c \in Range(children[root]) : nodeColorByName[c] # GRAY)
    /\ [][rejected_dependencies' # rejected_dependencies
             => pc = "strip" /\ pc' \in {"strip", "raised"}]_vars

\* A promoted node that had an edge to itself in the input is being scanned
\* while GRAY, in non-strict mode
C19_Witness ==
    /\ pc = "scan"
    /\ ~is_strict
    /\ nodeColorByName[root] = GRAY
    /\ <<root, root>> \in InputEdges
    /\ <<root, root>> \in Range(rejected_dependencies)
    /\ children[root] # <<>>

====
